---- MODULE Spec2Model ----
(***************************************************************************)
(* Release state machine of the self-hosted Expo updates server.           *)
(*                                                                         *)
(* The uploads table is modelled row by row; every handler is split at its *)
(* awaited database statements, because D1 runs each statement on its own  *)
(* (the handlers open no transaction).  Two request slots run handlers     *)
(* concurrently under Spec; under SpecSeq a request starts only when no    *)
(* other request is in flight.                                             *)
(***************************************************************************)
EXTENDS Integers, FiniteSets, Sequences, TLC

\* ------------------------------------------------------------------ bounds
MaxUploads == 2
MaxClock == 2

\* ------------------------------------------------------- domains of inputs
Ids == 1..MaxUploads
Reqs == {"r1", "r2"}
\* the client of the serial specifications
Client == "r1"
Projects == {"test-app"}
Versions == {"1.0.0", "2.0.0-ios"}
Channels == {"production"}
Platforms == {"ios", "android", "all"}
NoRow == [status |-> "absent"]
NoId == 0
Null == 0

\* body.status of PATCH /uploads/:id; "none" is a body without a status field
PatchStatuses == {"ready", "released", "obsolete", "none"}

VARIABLES
    uploads,      \* the uploads table: id -> row or NoRow
    clock,        \* the value new Date() returns now
    pc,           \* per request: the statement it is about to run
    op,           \* per request: the handler it runs
    uploadId,     \* per request: uploadId of the JSON body / :id of the path
    upload,       \* per running request: what it keeps of the row it selected
    body,         \* per running request: the status field of the PATCH body
    resp,         \* per request: HTTP status of the response, 0 while running
    pre,          \* history, per request running alone: the table at its select
    everReleased, \* history: ids whose row has had status released
    law,          \* history: progress of Release(x); Rollback(y); Release(x)
    promoted,     \* history: ids whose row a release or rollback has released
    bundle,       \* the uploads table, content columns: id -> columns or NoBundle
    objects,      \* the R2 bucket: the keys that hold an object
    clients,      \* the clients table: the ids of the device records
    apps,         \* the apps table: id -> row or NoApp
    req,          \* per request: the request as received, NoReq when idle
    job           \* per running request: locals of the device and publish
                  \* handlers, NoJob otherwise

\* the state that the device and publish handlers add to that of the release
\* handlers
ext == <<bundle, objects, clients, apps, req, job>>

vars == <<uploads, clock, pc, op, uploadId, upload, body, resp, pre,
          everReleased, law, promoted, bundle, objects, clients, apps, req,
          job>>

\* ------------------------------------------------------------------ helpers
Exists(id) == uploads[id] /= NoRow

StatusOf(tbl) == [i \in Ids |-> tbl[i].status]

\* eq(project) /\ eq(version) /\ eq(releaseChannel) of the two bulk updates
SameGroup(row, u) ==
    /\ row /= NoRow
    /\ u /= NoRow
    /\ row.project = u.project
    /\ row.version = u.version
    /\ row.releaseChannel = u.releaseChannel

SameCoordinate(a, b) == SameGroup(a, b) /\ a.platform = b.platform

AllDone == \A r \in Reqs : pc[r] = "done"

NoLaw == [phase |-> 0, x |-> NoId, y |-> NoId, snap |-> <<>>]

\* ------------------------------------------------- identifiers and content
\* a header, query parameter, path segment or form field that is not there
Undefined == "(undefined)"

NoReq == [kind |-> "none"]
NoJob == [stage |-> "none"]
NoBundle == [r2Path |-> <<>>]

\* UUIDs by origin: crypto.randomUUID(), hashToUuid(hashAsset(text)), and the
\* id field of a signed manifest.  The text is kept in place of its digest:
\* two identifiers are equal exactly when rule and text are.
RandomUuid(n) == [rule |-> "random", text |-> <<>>, n |-> n]

\* the update_id column when it is null
NoUuid == [rule |-> "none", text |-> <<>>, n |-> 0]

\* hashToUuid(await hashAsset(new TextEncoder().encode(text)))
HashToUuid(text) == [rule |-> "hash", text |-> text, n |-> 0]

\* `updates/${project}/${version}/${id}`
R2Path(project, version, id) == <<"updates", project, version, id>>

\* `${r2Path}/${key}`
FilePath(r2Path, key) == <<r2Path, key>>

\* what create_mock_bundle builds and the publish requests post: metadata.json
\* (fileMetadata of ios and android, no assets), app.json, and the
\* two bundles, in the order of the form
MockBundle ==
    [metadataJson |-> "{mock}",
     fileMetadata |-> [ios |-> "bundles/ios.js", android |-> "bundles/android.js"],
     files |-> <<"metadata.json", "app.json", "bundles/ios.js",
                 "bundles/android.js">>]

\* the keys of a form posted under r2Path
FilePaths(r2Path, form) ==
    {FilePath(r2Path, form.files[k]) : k \in 1..Len(form.files)}

\* the ids that requests give to applications: those of the projects and
\* their variants in letter case
AppIds == Projects \cup {"TEST-APP", "MyApp", "myapp"}

NoApp == [name |-> Undefined]

\* newApp of POST /apps: the row of an application; privateKey and
\* certificate are null until a key pair is stored
NewApp(id, privateKey, certificate) ==
    [name |-> id, privateKey |-> privateKey, certificate |-> certificate]

\* the uploads table is empty, the bucket too, no request is running, and the
\* applications of the projects exist, without a key pair
InitStore ==
    /\ uploads = [i \in Ids |-> NoRow]
    /\ clock = 1
    /\ pc = [r \in Reqs |-> "done"]
    /\ op = [r \in Reqs |-> "none"]
    /\ uploadId = [r \in Reqs |-> NoId]
    /\ upload = [r \in Reqs |-> NoRow]
    /\ body = [r \in Reqs |-> "none"]
    /\ resp = [r \in Reqs |-> 0]
    /\ pre = [r \in Reqs |-> <<>>]
    /\ everReleased = {}
    /\ law = NoLaw
    /\ promoted = {}
    /\ bundle = [i \in Ids |-> NoBundle]
    /\ objects = {}
    /\ clients = {}
    /\ apps = [a \in AppIds |-> IF a \in Projects THEN NewApp(a, Undefined, Undefined)
                                 ELSE NoApp]
    /\ job = [r \in Reqs |-> NoJob]

Init ==
    /\ InitStore
    /\ req = [r \in Reqs |-> NoReq]

\* new Date() advances between statements
Tick ==
    /\ clock < MaxClock
    /\ clock' = clock + 1
    /\ UNCHANGED <<uploads, pc, op, uploadId, upload, body, resp, pre,
                   everReleased, law>>
    /\ UNCHANGED <<promoted, ext>>

\* ------------------------------------------------------- request book-keeping
\* a handler starts on a free slot: it has parsed its input
Begin(r, h, id) ==
    /\ pc[r] = "done"
    /\ op' = [op EXCEPT ![r] = h]
    /\ uploadId' = [uploadId EXCEPT ![r] = id]

\* the fields of the selected row that the handlers use afterwards
Selected(row) ==
    [project |-> row.project, version |-> row.version,
     releaseChannel |-> row.releaseChannel, platform |-> row.platform,
     status |-> row.status]

\* the select returned a row: the handler goes on to its statement next.
\* pre remembers the table for a request that starts while no other request
\* runs, and is dropped for every request that another one overlaps.
Proceed(r, id, b, next) ==
    /\ pc' = [pc EXCEPT ![r] = next]
    /\ resp' = [resp EXCEPT ![r] = 0]
    /\ body' = [body EXCEPT ![r] = b]
    /\ upload' = [upload EXCEPT ![r] = Selected(uploads[id])]
    /\ pre' = [q \in Reqs |-> IF q = r /\ AllDone THEN uploads ELSE <<>>]

\* c.json(..., code): the handler of request r returns
Respond(r, code) ==
    /\ pc' = [pc EXCEPT ![r] = "done"]
    /\ resp' = [resp EXCEPT ![r] = code]
    /\ body' = [body EXCEPT ![r] = "none"]
    /\ upload' = [upload EXCEPT ![r] = NoRow]
    /\ pre' = [q \in Reqs |-> <<>>]

\* r has run without another request between its select and now
Alone(r) == pre[r] /= <<>>

\* the progress of Release(x); Rollback(y); Release(x) when handler h on
\* target t answers with code, leaving the table tbl: phase 1 after a
\* release of x, 2 after a rollback of y that follows it, 3 after a release
\* of x that follows both; snap is the status of every upload after phase 1
\* or 3
LawAfter(l, alone, h, t, code, tbl) ==
    IF ~alone THEN NoLaw
    ELSE IF h = "release" /\ code = 200
    THEN IF l.phase = 2 /\ t = l.x
         THEN [phase |-> 3, x |-> t, y |-> l.y, snap |-> StatusOf(tbl)]
         ELSE [phase |-> 1, x |-> t, y |-> NoId, snap |-> StatusOf(tbl)]
    ELSE IF /\ h = "rollback" /\ code = 200 /\ l.phase \in {1, 3}
            /\ t /= l.x /\ SameGroup(tbl[l.x], tbl[t])
    THEN [phase |-> 2, x |-> l.x, y |-> t, snap |-> l.snap]
    ELSE NoLaw

Released(tbl) == {i \in Ids : tbl[i].status = "released"}

\* ----------------------------------------------------------- POST /upload
\* the content columns of newUpload in routes/uploads.ts: the row id is the
\* random uploadId (newId), r2Path is built on it, and updateId is the digest of
\* metadata.json when the form has one
NewUpload(newId, project, version, form) ==
    [id |-> newId,
     r2Path |-> R2Path(project, version, newId),
     updateId |-> IF form.metadataJson /= Undefined
                  THEN HashToUuid(<<form.metadataJson>>)
                  ELSE newId,
     fileMetadata |-> form.fileMetadata]

\* the handler of routes/uploads.ts, answered 201: every file of the form is
\* put under r2Path, then db.insert(uploads).values(newUpload) with a fresh
\* id and status ready.  The requests post the mock bundle.
Upload(r, id, project, version, releaseChannel, platform) ==
    /\ Begin(r, "upload", id)
    /\ ~Exists(id)
    /\ \A j \in Ids : j < id => Exists(j)
    /\ uploads' = [uploads EXCEPT ![id] =
           [project |-> project, version |-> version,
            releaseChannel |-> releaseChannel, platform |-> platform,
            status |-> "ready", releasedAt |-> Null, updatedAt |-> clock]]
    /\ bundle' = [bundle EXCEPT ![id] =
           NewUpload(RandomUuid(id), project, version, MockBundle)]
    /\ objects' = objects \cup FilePaths(bundle'[id].r2Path, MockBundle)
    /\ Respond(r, 201)
    /\ everReleased' = everReleased \ {id}
    /\ law' = LawAfter(law, AllDone, "upload", id, 201, uploads')
    /\ promoted' = promoted \ {id}
    /\ UNCHANGED <<clock, clients, apps, req, job>>

\* ---------------------------------------------------- POST /utils/release
\* variants of the bulk update: eq(id) for ne(id); one more condition, on
\* platform; the condition on status left out
MarkObsoleteEqId(tbl, u, except, now) ==
    [i \in Ids |->
        IF /\ SameGroup(tbl[i], u)
           /\ tbl[i].status = "released"
           /\ i = except
        THEN [tbl[i] EXCEPT !.status = "obsolete", !.updatedAt = now]
        ELSE tbl[i]]

MarkObsoleteSamePlatform(tbl, u, except, now) ==
    [i \in Ids |->
        IF /\ SameGroup(tbl[i], u)
           /\ tbl[i].platform = u.platform
           /\ tbl[i].status = "released"
           /\ i /= except
        THEN [tbl[i] EXCEPT !.status = "obsolete", !.updatedAt = now]
        ELSE tbl[i]]

MarkObsoleteAnyStatus(tbl, u, except, now) ==
    [i \in Ids |->
        IF /\ SameGroup(tbl[i], u)
           /\ i /= except
        THEN [tbl[i] EXCEPT !.status = "obsolete", !.updatedAt = now]
        ELSE tbl[i]]

\* update(uploads).set({status: 'obsolete', updatedAt}) where project,
\* version and releaseChannel are those of u, status is released and the id
\* is not except (NoId: no such condition)
MarkObsolete(tbl, u, except, now) ==
    [i \in Ids |->
        IF /\ SameGroup(tbl[i], u)
           /\ tbl[i].status = "released"
           /\ i /= except
        THEN [tbl[i] EXCEPT !.status = "obsolete", !.updatedAt = now]
        ELSE tbl[i]]

\* update(uploads).set({status: 'released', releasedAt, updatedAt})
\* where id = uploadId; no row matches when the row has been deleted
MarkReleased(tbl, id, now) ==
    [i \in Ids |->
        IF i = id /\ tbl[i] /= NoRow
        THEN [tbl[i] EXCEPT !.status = "released", !.releasedAt = now,
                            !.updatedAt = now]
        ELSE tbl[i]]

\* variants of the guard: every status but ready refused; a status string
\* that no row has
AlreadyReleasedNotReady(row) == row.status /= "ready"

AlreadyReleasedTypo(row) == row.status = "release"

\* the guard of the release handler on the row its select returned
AlreadyReleased(row) == row.status = "released"

\* select the target; 404 when absent, 400 when it is already released
ReleaseRead(r, id) ==
    /\ Begin(r, "release", id)
    /\ IF ~Exists(id)
       THEN /\ Respond(r, 404)
            /\ law' = LawAfter(law, AllDone, "release", id, 404, uploads)
       ELSE IF AlreadyReleased(uploads[id])
       THEN /\ Respond(r, 400)
            /\ law' = LawAfter(law, AllDone, "release", id, 400, uploads)
       ELSE /\ Proceed(r, id, "none", "demote")
            /\ UNCHANGED law
    /\ UNCHANGED <<uploads, clock, everReleased>>
    /\ UNCHANGED <<promoted, ext>>

\* mark the previous releases of the target's project/version/channel obsolete
ReleaseDemote(r) ==
    /\ pc[r] = "demote"
    /\ op[r] = "release"
    /\ uploads' = MarkObsolete(uploads, upload[r], uploadId[r], clock)
    /\ pc' = [pc EXCEPT ![r] = "promote"]
    /\ UNCHANGED <<clock, op, uploadId, upload, body, resp, pre,
                   everReleased, law>>
    /\ UNCHANGED <<promoted, ext>>

\* release the target and answer 200
ReleasePromote(r) ==
    /\ pc[r] = "promote"
    /\ op[r] = "release"
    /\ uploads' = MarkReleased(uploads, uploadId[r], clock)
    /\ Respond(r, 200)
    /\ everReleased' = everReleased \cup (Released(uploads') \cap {uploadId[r]})
    /\ law' = LawAfter(law, Alone(r), "release", uploadId[r], 200, uploads')
    /\ promoted' = promoted \cup (Released(uploads') \cap {uploadId[r]})
    /\ UNCHANGED <<clock, op, uploadId>>
    /\ UNCHANGED ext

\* --------------------------------------------------- POST /utils/rollback
\* select the target; 404 when absent; no check of its status
RollbackRead(r, id) ==
    /\ Begin(r, "rollback", id)
    /\ IF ~Exists(id)
       THEN /\ Respond(r, 404)
            /\ law' = LawAfter(law, AllDone, "rollback", id, 404, uploads)
       ELSE /\ Proceed(r, id, "none", "demote")
            /\ UNCHANGED law
    /\ UNCHANGED <<uploads, clock, everReleased>>
    /\ UNCHANGED <<promoted, ext>>

\* mark the current release obsolete: the bulk update has no ne(id) condition
RollbackDemote(r) ==
    /\ pc[r] = "demote"
    /\ op[r] = "rollback"
    /\ uploads' = MarkObsolete(uploads, upload[r], NoId, clock)
    /\ pc' = [pc EXCEPT ![r] = "promote"]
    /\ UNCHANGED <<clock, op, uploadId, upload, body, resp, pre,
                   everReleased, law>>
    /\ UNCHANGED <<promoted, ext>>

\* release the rollback target and answer 200
RollbackPromote(r) ==
    /\ pc[r] = "promote"
    /\ op[r] = "rollback"
    /\ uploads' = MarkReleased(uploads, uploadId[r], clock)
    /\ Respond(r, 200)
    /\ everReleased' = everReleased \cup (Released(uploads') \cap {uploadId[r]})
    /\ law' = LawAfter(law, Alone(r), "rollback", uploadId[r], 200, uploads')
    /\ promoted' = promoted \cup (Released(uploads') \cap {uploadId[r]})
    /\ UNCHANGED <<clock, op, uploadId>>
    /\ UNCHANGED ext

\* ------------------------------------------------------ PATCH /uploads/:id
\* select the row; 404 when absent
PatchRead(r, id, b) ==
    /\ Begin(r, "patch", id)
    /\ IF ~Exists(id)
       THEN /\ Respond(r, 404)
            /\ law' = LawAfter(law, AllDone, "patch", id, 404, uploads)
       ELSE /\ Proceed(r, id, b, "update")
            /\ UNCHANGED law
    /\ UNCHANGED <<uploads, clock, everReleased>>
    /\ UNCHANGED <<promoted, ext>>

\* updateData = {...body, updatedAt}, releasedAt added when body.status is
\* released and the row read was not; update ... where id = :id.  Of the
\* fields a body can carry, status is the one modelled.
PatchRow(tbl, id, b, existing, now) ==
    [i \in Ids |->
        IF i = id /\ tbl[i] /= NoRow
        THEN [tbl[i] EXCEPT
                !.status = IF b = "none" THEN @ ELSE b,
                !.releasedAt = IF b = "released" /\ existing.status /= "released"
                               THEN now ELSE @,
                !.updatedAt = now]
        ELSE tbl[i]]

PatchUpdate(r) ==
    /\ pc[r] = "update"
    /\ op[r] = "patch"
    /\ uploads' = PatchRow(uploads, uploadId[r], body[r], upload[r], clock)
    /\ Respond(r, 200)
    /\ everReleased' = everReleased \cup (Released(uploads') \cap {uploadId[r]})
    /\ law' = LawAfter(law, Alone(r), "patch", uploadId[r], 200, uploads')
    /\ UNCHANGED <<clock, op, uploadId>>
    /\ UNCHANGED <<promoted, ext>>

\* ----------------------------------------------------- DELETE /uploads/:id
\* select the row; 404 when absent
DeleteRead(r, id) ==
    /\ Begin(r, "delete", id)
    /\ IF ~Exists(id)
       THEN /\ Respond(r, 404)
            /\ law' = LawAfter(law, AllDone, "delete", id, 404, uploads)
       ELSE /\ Proceed(r, id, "none", "unlink")
            /\ UNCHANGED law
    /\ UNCHANGED <<uploads, clock, everReleased>>
    /\ UNCHANGED <<promoted, ext>>

\* variant: the listing is not restricted to the prefix
ListObjectsAll(store, prefix) == store

\* the keys R2.list({prefix}) returns
ListObjects(store, prefix) == {k \in store : k[1] = prefix}

\* R2.list({prefix: upload.r2Path}), then R2.delete(obj.key) for each object
\* listed, before the row is deleted
DeleteObjects(r) ==
    /\ pc[r] = "unlink"
    /\ op[r] = "delete"
    /\ objects' = objects \ ListObjects(objects, bundle[uploadId[r]].r2Path)
    /\ pc' = [pc EXCEPT ![r] = "remove"]
    /\ UNCHANGED <<uploads, clock, op, uploadId, upload, body, resp, pre,
                   everReleased, law, promoted, bundle, clients, apps, req, job>>

\* db.delete(uploads).where(eq(uploads.id, id))
DeleteRow(r) ==
    /\ pc[r] = "remove"
    /\ op[r] = "delete"
    /\ uploads' = [uploads EXCEPT ![uploadId[r]] = NoRow]
    /\ bundle' = [bundle EXCEPT ![uploadId[r]] = NoBundle]
    /\ Respond(r, 200)
    /\ everReleased' = everReleased \ {uploadId[r]}
    /\ law' = LawAfter(law, Alone(r), "delete", uploadId[r], 200, uploads')
    /\ promoted' = promoted \ {uploadId[r]}
    /\ UNCHANGED <<clock, op, uploadId, objects, clients, apps, req, job>>

\* ------------------------------------------------------------ store failure
\* a D1 statement of a running handler throws: the handler stops there, the
\* statements it has run stay applied, and the framework answers 500
StoreFail(r) ==
    /\ pc[r] /= "done"
    /\ Respond(r, 500)
    /\ law' = NoLaw
    /\ UNCHANGED <<uploads, clock, op, uploadId, everReleased>>
    /\ UNCHANGED <<promoted, ext>>

\* ----------------------------------------------------------- specifications
UploadAny(r) ==
    \E id \in Ids, p \in Projects, v \in Versions, c \in Channels,
       f \in Platforms : Upload(r, id, p, v, c, f)

\* every endpoint that writes uploads, requests interleaved at their statements
Next ==
    \/ Tick
    \/ \E r \in Reqs : UploadAny(r)
    \/ \E r \in Reqs, id \in Ids : ReleaseRead(r, id)
    \/ \E r \in Reqs : ReleaseDemote(r)
    \/ \E r \in Reqs : ReleasePromote(r)
    \/ \E r \in Reqs, id \in Ids : RollbackRead(r, id)
    \/ \E r \in Reqs : RollbackDemote(r)
    \/ \E r \in Reqs : RollbackPromote(r)
    \/ \E r \in Reqs, id \in Ids, b \in PatchStatuses : PatchRead(r, id, b)
    \/ \E r \in Reqs : PatchUpdate(r)
    \/ \E r \in Reqs, id \in Ids : DeleteRead(r, id)
    \/ \E r \in Reqs : DeleteObjects(r)
    \/ \E r \in Reqs : DeleteRow(r)
    \/ \E r \in Reqs : StoreFail(r)

Spec == Init /\ [][Next]_vars

\* uploads, releases and rollbacks of one client that waits for each answer
\* before its next request; no store failure
NextSeq ==
    \/ Tick
    \/ UploadAny(Client)
    \/ \E id \in Ids : ReleaseRead(Client, id)
    \/ ReleaseDemote(Client)
    \/ ReleasePromote(Client)
    \/ \E id \in Ids : RollbackRead(Client, id)
    \/ RollbackDemote(Client)
    \/ RollbackPromote(Client)

SpecSeq == Init /\ [][NextSeq]_vars

\* uploads and releases, requests interleaved at their statements
NextRace ==
    \/ Tick
    \/ \E r \in Reqs : UploadAny(r)
    \/ \E r \in Reqs, id \in Ids : ReleaseRead(r, id)
    \/ \E r \in Reqs : ReleaseDemote(r)
    \/ \E r \in Reqs : ReleasePromote(r)

SpecRace == Init /\ [][NextRace]_vars

\* every endpoint that writes uploads, one request at a time
NextCrud ==
    \/ NextSeq
    \/ \E id \in Ids, b \in PatchStatuses : PatchRead(Client, id, b)
    \/ PatchUpdate(Client)
    \/ \E id \in Ids : DeleteRead(Client, id)
    \/ DeleteObjects(Client)
    \/ DeleteRow(Client)

SpecCrud == Init /\ [][NextCrud]_vars

\* uploads, releases and rollbacks, one request at a time, over a store whose
\* statements can fail
NextFail ==
    \/ NextSeq
    \/ StoreFail(Client)

SpecFail == Init /\ [][NextFail]_vars

\* ------------------------------------------------------------ GET /api/manifest
\* select ... where project, version, releaseChannel, status = released
\* order by releasedAt desc limit 1: the ids the query can return
ManifestSelect(tbl, project, version, releaseChannel) ==
    LET key == [project |-> project, version |-> version,
                releaseChannel |-> releaseChannel]
        live == {i \in Ids : SameGroup(tbl[i], key) /\ tbl[i].status = "released"}
    IN {i \in live : \A j \in live : tbl[j].releasedAt <= tbl[i].releasedAt}

\* ----------------------------------------------------------- parseExpoRequest
\* the values JavaScript's || skips
Falsy(v) == v \in {Undefined, ""}

\* a || b
OrElse(a, b) == IF Falsy(a) THEN b ELSE a

NoParams ==
    [project |-> Undefined, platform |-> Undefined,
     runtimeVersion |-> Undefined, releaseChannel |-> Undefined,
     clientId |-> Undefined]

\* variants of the parser: the query string before the headers; a platform
\* that is only required to be present
ParseExpoRequestQueryFirst(headers, query, pathProject, pathChannel) ==
    LET project == OrElse(OrElse(query.project, headers.project), pathProject)
        platform == OrElse(query.platform, headers.platform)
        runtimeVersion == OrElse(query.version, headers.version)
        releaseChannel == OrElse(OrElse(query.channel, headers.channel), pathChannel)
    IN  IF Falsy(project)
        THEN NoParams @@ [error |-> "Missing project identifier"]
        ELSE IF Falsy(platform) \/ platform \notin {"ios", "android"}
        THEN NoParams @@ [error |-> "Invalid or missing platform (must be ios or android)"]
        ELSE IF Falsy(runtimeVersion)
        THEN NoParams @@ [error |-> "Missing runtime version"]
        ELSE IF Falsy(releaseChannel)
        THEN NoParams @@ [error |-> "Missing release channel"]
        ELSE [error |-> "", project |-> project, platform |-> platform,
              runtimeVersion |-> runtimeVersion,
              releaseChannel |-> releaseChannel,
              clientId |-> headers.clientId]

ParseExpoRequestAnyPlatform(headers, query, pathProject, pathChannel) ==
    LET project == OrElse(OrElse(headers.project, query.project), pathProject)
        platform == OrElse(headers.platform, query.platform)
        runtimeVersion == OrElse(headers.version, query.version)
        releaseChannel == OrElse(OrElse(headers.channel, query.channel), pathChannel)
    IN  IF Falsy(project)
        THEN NoParams @@ [error |-> "Missing project identifier"]
        ELSE IF Falsy(platform)
        THEN NoParams @@ [error |-> "Invalid or missing platform (must be ios or android)"]
        ELSE IF Falsy(runtimeVersion)
        THEN NoParams @@ [error |-> "Missing runtime version"]
        ELSE IF Falsy(releaseChannel)
        THEN NoParams @@ [error |-> "Missing release channel"]
        ELSE [error |-> "", project |-> project, platform |-> platform,
              runtimeVersion |-> runtimeVersion,
              releaseChannel |-> releaseChannel,
              clientId |-> headers.clientId]

\* parseExpoRequest(c, pathProject, pathChannel): every field from the first
\* of its sources that is not falsy, then the four checks in their order;
\* error is "" for a request that passes them
ParseExpoRequest(headers, query, pathProject, pathChannel) ==
    LET project == OrElse(OrElse(headers.project, query.project), pathProject)
        platform == OrElse(headers.platform, query.platform)
        runtimeVersion == OrElse(headers.version, query.version)
        releaseChannel == OrElse(OrElse(headers.channel, query.channel), pathChannel)
    IN  IF Falsy(project)
        THEN NoParams @@ [error |-> "Missing project identifier"]
        ELSE IF Falsy(platform) \/ platform \notin {"ios", "android"}
        THEN NoParams @@ [error |-> "Invalid or missing platform (must be ios or android)"]
        ELSE IF Falsy(runtimeVersion)
        THEN NoParams @@ [error |-> "Missing runtime version"]
        ELSE IF Falsy(releaseChannel)
        THEN NoParams @@ [error |-> "Missing release channel"]
        ELSE [error |-> "", project |-> project, platform |-> platform,
              runtimeVersion |-> runtimeVersion,
              releaseChannel |-> releaseChannel,
              clientId |-> headers.clientId]

\* the requests the parser is applied to: every field missing, empty or
\* present in each of its sources, with a value that tells the source
ParserInputs ==
    {[header |-> [project |-> hp, platform |-> hf, version |-> hv,
                  channel |-> hc, clientId |-> Undefined],
      query |-> [project |-> qp, platform |-> qf, version |-> qv,
                 channel |-> qc],
      path |-> [project |-> pp, channel |-> pcn]] :
        hp \in {Undefined, "", "app-h"}, qp \in {Undefined, "", "app-q"},
        pp \in {Undefined, "app-p"},
        hf \in {Undefined, "", "ios", "web"},
        qf \in {Undefined, "", "android", "web"},
        hv \in {Undefined, "", "1.0.0"}, qv \in {Undefined, "2.0.0"},
        hc \in {Undefined, "", "production"}, qc \in {Undefined, "", "staging"},
        pcn \in {Undefined, "beta"}}

\* a route hands one request to the parser
InitParse ==
    /\ InitStore
    /\ \E raw \in ParserInputs :
          req = [r \in Reqs |-> IF r = Client THEN raw ELSE NoReq]

\* parseExpoRequest(c, pathProject, pathChannel) returns
Parse(r) ==
    /\ req[r] /= NoReq
    /\ job[r] = NoJob
    /\ job' = [job EXCEPT ![r] =
           [stage |-> "parsed",
            params |-> ParseExpoRequest(req[r].header, req[r].query,
                                        req[r].path.project,
                                        req[r].path.channel)]]
    /\ UNCHANGED <<uploads, clock, pc, op, uploadId, upload, body, resp, pre,
                   everReleased, law, promoted, bundle, objects, clients, apps, req>>

NextParse == Parse(Client)

SpecParse == InitParse /\ [][NextParse]_vars

\* ----------------------------------------------- GET /api/manifest, handler
\* the ids of the rows of the apps table
Apps == {a \in AppIds : apps[a] /= NoApp}

\* a device request that carries its fields in headers, as the e2e tests send
\* them
DeviceRequest(project, platform, version, channel, clientId) ==
    [header |-> [project |-> project, platform |-> platform,
                 version |-> version, channel |-> channel,
                 clientId |-> clientId],
     query |-> [project |-> Undefined, platform |-> Undefined,
                version |-> Undefined, channel |-> Undefined]]

\* what a handler leaves in job when it has answered: the error of the JSON
\* body ("" when there is none) and the stores it has accessed
Answered(error, accessed) ==
    [stage |-> "answered", error |-> error, accessed |-> accessed]

\* trackClient: the upsert of the device record; the foreign key on project
\* refuses a project that is not the id of an application
TrackClient(tbl, params) ==
    IF ~Falsy(params.clientId) /\ params.project \in Apps
    THEN tbl \cup {params.clientId}
    ELSE tbl

\* the request arrives
ManifestBegin(r, raw) ==
    /\ Begin(r, "manifest", NoId)
    /\ pc' = [pc EXCEPT ![r] = "parse"]
    /\ resp' = [resp EXCEPT ![r] = 0]
    /\ pre' = [q \in Reqs |-> <<>>]
    /\ req' = [req EXCEPT ![r] = raw]
    /\ job' = [job EXCEPT ![r] = NoJob]
    /\ law' = NoLaw
    /\ UNCHANGED <<uploads, clock, upload, body, everReleased, promoted,
                   bundle, objects, clients, apps>>

\* variant: the handler awaits trackClient, so a refused upsert reaches
\* the response
TrackFailureAwaited(params) ==
    IF ~Falsy(params.clientId) /\ params.project \notin Apps
    THEN "Internal Server Error"
    ELSE ""

\* trackClient(db, params).catch(console.error), not awaited: the rejection
\* of the upsert is logged and no error of it reaches the handler
TrackFailure(params) == ""

\* what the handler has decided once it has read the table: the code it
\* answers (0 when it goes on to compose), the error of the body, the
\* stores it has accessed and the upload it selected
ReadAnswer(code, error, accessed, id) ==
    [code |-> code, error |-> error, accessed |-> accessed, id |-> id]

\* the statements of the handler up to the platform metadata of the selected
\* update, as a function of the request and of the uploads table:
\* parseExpoRequest and 400 on its error; the select of the latest released
\* upload of the project, version and channel, 404 when there is none or when
\* its metadata has no entry for the platform
ReadAnswers(raw, tbl, content) ==
    LET params == ParseExpoRequest(raw.header, raw.query, Undefined, Undefined)
        hits == ManifestSelect(tbl, params.project, params.runtimeVersion,
                               params.releaseChannel)
    IN  IF params.error /= ""
        THEN {ReadAnswer(400, params.error, {}, NoId)}
        ELSE IF TrackFailure(params) /= ""
        THEN {ReadAnswer(500, TrackFailure(params), {"db"}, NoId)}
        ELSE IF hits = {}
        THEN {ReadAnswer(404, "No updates available", {"db"}, NoId)}
        ELSE {IF params.platform \notin DOMAIN content[id].fileMetadata
              THEN ReadAnswer(404, "No assets in update", {"db"}, id)
              ELSE ReadAnswer(0, "", {"db"}, id) : id \in hits}

\* parseExpoRequest(c), trackClient started when the request has a client
\* id, the select and the checks of ReadAnswers; the handler answers or goes
\* on to compose the manifest of the selected update
ManifestRead(r) ==
    /\ pc[r] = "parse"
    /\ op[r] = "manifest"
    /\ LET params == ParseExpoRequest(req[r].header, req[r].query,
                                      Undefined, Undefined)
       IN  /\ clients' = IF params.error /= "" THEN clients
                         ELSE TrackClient(clients, params)
           /\ \E a \in ReadAnswers(req[r], uploads, bundle) :
                 /\ uploadId' = [uploadId EXCEPT ![r] =
                        IF a.id = NoId THEN @ ELSE a.id]
                 /\ IF a.code /= 0
                    THEN /\ Respond(r, a.code)
                         /\ job' = [job EXCEPT ![r] =
                                Answered(a.error, a.accessed)]
                    ELSE /\ pc' = [pc EXCEPT ![r] = "compose"]
                         /\ job' = [job EXCEPT ![r] =
                                [stage |-> "compose",
                                 platform |-> params.platform,
                                 update |-> bundle[a.id]]]
                         /\ UNCHANGED <<resp, body, upload, pre>>
    /\ req' = [req EXCEPT ![r] = NoReq]
    /\ UNCHANGED <<uploads, clock, op, everReleased, law, promoted, bundle,
                   objects, apps>>

\* id: update.updateId || update.id
ManifestId(update) ==
    IF update.updateId /= NoUuid THEN update.updateId ELSE update.id

\* `${basePath}/${platformMetadata.bundle}`
BundlePath(update, platform) ==
    FilePath(update.r2Path, update.fileMetadata[platform])

\* R2.get(bundlePath): 500 when the bundle is not there, else the manifest
\* is built and sent
ManifestCompose(r) ==
    /\ pc[r] = "compose"
    /\ op[r] = "manifest"
    /\ IF BundlePath(job[r].update, job[r].platform) \in objects
       THEN /\ Respond(r, 200)
            /\ job' = [job EXCEPT ![r] = Answered("", {"db", "r2"})]
       ELSE /\ Respond(r, 500)
            /\ job' = [job EXCEPT ![r] = Answered("Bundle not found", {"db", "r2"})]
    /\ UNCHANGED <<uploads, clock, op, uploadId, everReleased, law, promoted,
                   bundle, objects, clients, apps, req>>

\* SQL LOWER() on the project ids of the model
Lower(s) ==
    IF s = "TEST-APP" THEN "test-app"
    ELSE IF s = "MyApp" THEN "myapp"
    ELSE s

\* resolveAppId: the id of the application whose id equals projectId up to
\* letter case, Undefined (null) when there is none
ResolveAppId(projectId) ==
    IF \E a \in Apps : Lower(a) = Lower(projectId)
    THEN CHOOSE a \in Apps : Lower(a) = Lower(projectId)
    ELSE Undefined

\* device requests, well-formed or not, all with an eas-client-id: the
\* project id as stored, in upper case or missing; a device platform, another
\* one or none; the runtime version and the channel present or missing
DeviceRequests ==
    {DeviceRequest(p, f, v, c, "device-1") :
        p \in {"test-app", "TEST-APP", Undefined},
        f \in {"ios", "web", Undefined},
        v \in {"1.0.0", Undefined},
        c \in {"production", Undefined}}

\* uploads, releases and the manifest endpoint, one request at a time
NextDevice ==
    \/ UploadAny(Client)
    \/ \E id \in Ids : ReleaseRead(Client, id)
    \/ ReleaseDemote(Client)
    \/ ReleasePromote(Client)
    \/ \E raw \in DeviceRequests : ManifestBegin(Client, raw)
    \/ ManifestRead(Client)
    \/ ManifestCompose(Client)

SpecDevice == Init /\ [][NextDevice]_vars

\* the requests of the devices of the e2e tests: the stored project id, a
\* device platform, a runtime version, the channel, no eas-client-id
ServeRequests ==
    {DeviceRequest(p, f, v, c, Undefined) :
        p \in Projects, f \in {"ios", "android"}, v \in Versions, c \in Channels}

\* uploads, releases, PATCH /uploads/:id and the manifest endpoint, one
\* request at a time
NextServe ==
    \/ Tick
    \/ UploadAny(Client)
    \/ \E id \in Ids : ReleaseRead(Client, id)
    \/ ReleaseDemote(Client)
    \/ ReleasePromote(Client)
    \/ \E id \in Ids, b \in PatchStatuses : PatchRead(Client, id, b)
    \/ PatchUpdate(Client)
    \/ \E raw \in ServeRequests : ManifestBegin(Client, raw)
    \/ ManifestRead(Client)
    \/ ManifestCompose(Client)

SpecServe == Init /\ [][NextServe]_vars

\* ------------------------------------------- POST /upload, the update id
\* the x-signed-manifest header: absent or empty; not base64; base64 of text
\* that is not JSON; base64 of a JSON map whose ios and android entries are
\* absent, not JSON, a manifest without id, or a manifest with an id
SignedEntries == {"absent", "garbage", "no-id", "id-A", "id-B"}

SignedManifest(enc, text, ios, android) ==
    [enc |-> enc, body |-> text, ios |-> ios, android |-> android]

NoSigned == SignedManifest("absent", "none", "absent", "absent")

SignedManifests ==
    {NoSigned,
     SignedManifest("empty", "none", "absent", "absent"),
     SignedManifest("garbage", "none", "absent", "absent"),
     SignedManifest("base64", "garbage", "absent", "absent")}
    \cup {SignedManifest("base64", "map", i, a) :
              i \in SignedEntries, a \in SignedEntries}

\* the id field of a signed manifest
SignedUuid(entry) == [rule |-> "signed", text |-> <<entry>>, n |-> 0]

\* signedManifests.ios || signedManifests.android
FirstPlatformManifest(signed) ==
    IF signed.ios /= "absent" THEN signed.ios ELSE signed.android

\* atob or one of the two JSON.parse of the try block throws
SignedThrows(signed) ==
    \/ signed.enc = "garbage"
    \/ signed.body = "garbage"
    \/ FirstPlatformManifest(signed) = "garbage"

\* the updateId of POST /upload (part_005 230-260): random by default; with
\* a signed manifest, the id of its first platform entry when there is one
\* and it has an id, and the digest of metadata.json alone when parsing
\* throws; without a signed manifest, the digest of metadata.json, ":" and
\* platform
UpdateId(signed, metadataJson, platform, random) ==
    IF signed.enc \notin {"absent", "empty"}
    THEN IF SignedThrows(signed)
         THEN IF ~Falsy(metadataJson)
              THEN HashToUuid(<<metadataJson>>)
              ELSE random
         ELSE IF FirstPlatformManifest(signed) \in {"id-A", "id-B"}
              THEN SignedUuid(FirstPlatformManifest(signed))
              ELSE random
    ELSE IF ~Falsy(metadataJson)
    THEN HashToUuid(<<metadataJson, ":", platform>>)
    ELSE random

\* the headers and the form the derivation is applied to
UpdateIdInputs ==
    {[signed |-> sg, metadataJson |-> m, platform |-> f] :
        sg \in SignedManifests, m \in {Undefined, "{mock}"}, f \in Platforms}

InitUpdateId ==
    /\ InitStore
    /\ \E in \in UpdateIdInputs :
          req = [r \in Reqs |-> IF r = Client THEN in ELSE NoReq]

\* the handler reaches line 262 with its updateId
Derive(r) ==
    /\ req[r] /= NoReq
    /\ job[r] = NoJob
    /\ \E n \in Ids :
          job' = [job EXCEPT ![r] =
              [stage |-> "derived", random |-> RandomUuid(n),
               updateId |-> UpdateId(req[r].signed, req[r].metadataJson,
                                     req[r].platform, RandomUuid(n))]]
    /\ UNCHANGED <<uploads, clock, pc, op, uploadId, upload, body, resp, pre,
                   everReleased, law, promoted, bundle, objects, clients, apps, req>>

NextUpdateId == Derive(Client)

SpecUpdateId == InitUpdateId /\ [][NextUpdateId]_vars

\* ------------------------------------------ POST /upload, publish requests
\* c.env.UPLOAD_KEY
UPLOAD_KEY == "secret"

\* a form without metadata.json: one bundle file
BareForm ==
    [metadataJson |-> Undefined,
     fileMetadata |-> <<>>,
     files |-> <<"bundles/ios.js">>]

\* a publish request: the headers upload-key, project, version,
\* release-channel, platform and x-signed-manifest, and the multipart form
UploadRequest(uploadKey, project, version, releaseChannel, platform, signed, form) ==
    [uploadKey |-> uploadKey, project |-> project, version |-> version,
     releaseChannel |-> releaseChannel, platform |-> platform,
     signed |-> signed, form |-> form]

\* publish requests, well-formed or not: the key right, wrong or missing; the
\* project id as stored, in upper case, of no application, or missing;
\* version and channel present or missing; platform ios or none; no signed
\* manifest; either form
UploadRequests ==
    {UploadRequest(k, p, v, c, f, NoSigned, fm) :
        k \in {UPLOAD_KEY, "wrong", Undefined},
        p \in {"test-app", "TEST-APP", "ghost", Undefined},
        v \in {"1.0.0", Undefined},
        c \in {"production", Undefined},
        f \in {"ios", Undefined},
        fm \in {MockBundle, BareForm}}

\* the requests of the publish script: the key, the stored project id, a
\* version and the channel; platform ios or none; no signed manifest or one
\* that is not base64; either form
PublishRequests ==
    {UploadRequest(UPLOAD_KEY, p, "1.0.0", c, f, sg, fm) :
        p \in Projects, c \in Channels,
        f \in {"ios", Undefined},
        sg \in {NoSigned, SignedManifest("garbage", "none", "absent", "absent")},
        fm \in {MockBundle, BareForm}}

\* platformHeader when it is ios, android or all, else "all"
PlatformOf(platformHeader) ==
    IF platformHeader \in {"ios", "android", "all"} THEN platformHeader
    ELSE "all"

\* crypto.randomUUID() returns an identifier that no row and no object has
FreshUuids(tbl, store) ==
    {RandomUuid(n) : n \in Ids} \
        ({tbl[i].id : i \in {j \in Ids : tbl[j] /= NoBundle}}
         \cup {k[1][4] : k \in store})

\* the request arrives
PublishBegin(r, raw) ==
    /\ Begin(r, "publish", NoId)
    /\ pc' = [pc EXCEPT ![r] = "check"]
    /\ resp' = [resp EXCEPT ![r] = 0]
    /\ pre' = [q \in Reqs |-> <<>>]
    /\ req' = [req EXCEPT ![r] = raw]
    /\ job' = [job EXCEPT ![r] = NoJob]
    /\ law' = NoLaw
    /\ UNCHANGED <<uploads, clock, upload, body, everReleased, promoted,
                   bundle, objects, clients, apps>>

\* variant: the handler goes on with the requested project id when no
\* application has it
PublishProjectUnresolved(projectId) == projectId

\* const project = await resolveAppId(db, requestedProject)
PublishProject(projectId) == ResolveAppId(projectId)

\* uploadKeyMiddleware (401), the required headers (400), resolveAppId
\* (404); then the form is read into memory and updateId and r2Path are
\* computed
PublishCheck(r) ==
    /\ pc[r] = "check"
    /\ op[r] = "publish"
    /\ LET q == req[r]
           project == PublishProject(q.project)
           platform == PlatformOf(q.platform)
       IN  IF Falsy(q.uploadKey) \/ q.uploadKey /= UPLOAD_KEY
           THEN /\ Respond(r, 401)
                /\ job' = [job EXCEPT ![r] = Answered("Invalid upload key", {})]
           ELSE IF Falsy(q.project) \/ Falsy(q.version) \/ Falsy(q.releaseChannel)
           THEN /\ Respond(r, 400)
                /\ job' = [job EXCEPT ![r] = Answered(
                       "Missing required headers: project, version, release-channel",
                       {})]
           ELSE IF Falsy(project)
           THEN /\ Respond(r, 404)
                /\ job' = [job EXCEPT ![r] = Answered("App not found", {"db"})]
           ELSE \E random \in FreshUuids(bundle, objects) :
                LET updateId == UpdateId(q.signed, q.form.metadataJson,
                                         platform, random)
                IN  /\ job' = [job EXCEPT ![r] =
                           [stage |-> "publish",
                            project |-> project,
                            version |-> q.version,
                            releaseChannel |-> q.releaseChannel,
                            platform |-> platform,
                            signed |-> q.signed,
                            fileMetadata |-> q.form.fileMetadata,
                            updateId |-> updateId,
                            r2Path |-> R2Path(project, q.version, updateId),
                            pendingFiles |-> q.form.files,
                            written |-> {}]]
                    /\ pc' = [pc EXCEPT ![r] =
                           IF q.form.files = <<>> THEN "insert" ELSE "put"]
                    /\ UNCHANGED <<resp, body, upload, pre>>
    /\ req' = [req EXCEPT ![r] = NoReq]
    /\ UNCHANGED <<uploads, clock, op, uploadId, everReleased, law, promoted,
                   bundle, objects, clients, apps>>

\* await c.env.R2.put(filePath, data) for the next pending file
PublishPut(r) ==
    /\ pc[r] = "put"
    /\ op[r] = "publish"
    /\ LET filePath == FilePath(job[r].r2Path, Head(job[r].pendingFiles))
       IN  /\ objects' = objects \cup {filePath}
           /\ job' = [job EXCEPT ![r].pendingFiles = Tail(@),
                                 ![r].written = @ \cup {filePath}]
    /\ pc' = [pc EXCEPT ![r] =
           IF Tail(job[r].pendingFiles) = <<>> THEN "insert" ELSE "put"]
    /\ UNCHANGED <<uploads, clock, op, uploadId, upload, body, resp, pre,
                   everReleased, law, promoted, bundle, clients, apps, req>>

\* the rows whose primary key is id
RowsWithId(tbl, id) == {i \in Ids : tbl[i] /= NoBundle /\ tbl[i].id = id}

\* atob(signedManifestB64) (400 when it throws), then
\* db.insert(uploads).values(newUpload) with id: updateId and status ready;
\* the insert throws on a primary key that a row has
PublishInsert(r) ==
    /\ pc[r] = "insert"
    /\ op[r] = "publish"
    /\ LET j == job[r]
       IN  IF j.signed.enc = "garbage"
           THEN /\ Respond(r, 400)
                /\ job' = [job EXCEPT ![r] = Answered(
                       "Invalid x-signed-manifest: must be base64 encoded",
                       {"db", "r2"})]
                /\ UNCHANGED <<uploads, bundle, uploadId>>
           ELSE IF RowsWithId(bundle, j.updateId) /= {}
           THEN /\ Respond(r, 500)
                /\ job' = [job EXCEPT ![r] =
                       Answered("Internal Server Error", {"db", "r2"})]
                /\ UNCHANGED <<uploads, bundle, uploadId>>
           ELSE \E id \in Ids :
                /\ ~Exists(id)
                /\ \A k \in Ids : k < id => Exists(k)
                /\ uploads' = [uploads EXCEPT ![id] =
                       [project |-> j.project, version |-> j.version,
                        releaseChannel |-> j.releaseChannel,
                        platform |-> j.platform,
                        status |-> "ready", releasedAt |-> Null,
                        updatedAt |-> clock]]
                /\ bundle' = [bundle EXCEPT ![id] =
                       [id |-> j.updateId, r2Path |-> j.r2Path,
                        updateId |-> j.updateId,
                        fileMetadata |-> j.fileMetadata]]
                /\ uploadId' = [uploadId EXCEPT ![r] = id]
                /\ job' = [job EXCEPT ![r] = Answered("", {"db", "r2"})]
                /\ Respond(r, 201)
    /\ everReleased' = everReleased \ {i \in Ids : uploads[i] = NoRow}
    /\ promoted' = promoted \ {i \in Ids : uploads[i] = NoRow}
    /\ UNCHANGED <<clock, op, law, objects, clients, apps, req>>

\* an upload stops before its insert has run: R2.put or the insert throws,
\* or the request is cancelled; what it has put stays in the bucket
PublishFail(r) ==
    /\ pc[r] \in {"put", "insert"}
    /\ op[r] = "publish"
    /\ Respond(r, 500)
    /\ job' = [job EXCEPT ![r] =
           Answered("Internal Server Error", {"db", "r2"})]
    /\ UNCHANGED <<uploads, clock, op, uploadId, everReleased, law, promoted,
                   bundle, objects, clients, apps, req>>

\* publish requests of every kind, one at a time
NextGate ==
    \/ \E raw \in UploadRequests : PublishBegin(Client, raw)
    \/ PublishCheck(Client)
    \/ PublishPut(Client)
    \/ PublishInsert(Client)

SpecGate == Init /\ [][NextGate]_vars

\* the publish script, deletions, and uploads that stop where they are, one
\* request at a time
NextPublish ==
    \/ \E raw \in PublishRequests : PublishBegin(Client, raw)
    \/ PublishCheck(Client)
    \/ PublishPut(Client)
    \/ PublishInsert(Client)
    \/ PublishFail(Client)
    \/ \E id \in Ids : DeleteRead(Client, id)
    \/ DeleteObjects(Client)
    \/ DeleteRow(Client)

SpecPublish == Init /\ [][NextPublish]_vars

\* uploads of the publish script for ios without a signed manifest, with
\* four files or one, uploads that stop, and deletions, one request at a time
NextDelete ==
    \/ \E raw \in {q \in PublishRequests :
                      q.signed = NoSigned /\ q.platform = "ios"} :
          PublishBegin(Client, raw)
    \/ PublishCheck(Client)
    \/ PublishPut(Client)
    \/ PublishInsert(Client)
    \/ PublishFail(Client)
    \/ \E id \in Ids : DeleteRead(Client, id)
    \/ DeleteObjects(Client)
    \/ DeleteRow(Client)

SpecDelete == Init /\ [][NextDelete]_vars

\* ------------------------------------- GET /api/manifest, the response
\* a column or header that holds no text
NoText == <<>>

\* JSON.stringify of a manifest: its bytes are those of its fields, of which
\* id and createdAt vary here
ManifestJson(id, createdAt) == <<"manifest", id, createdAt>>

\* the private_key column of the application: null, a PEM that imports, or
\* text that crypto.subtle.importKey refuses
PrivateKeys == {Undefined, "pem-1", "not-a-pem"}

\* variant: a failure of the signing step yields no signature instead of
\* an error
SignManifestFailOpen(manifestJson, privateKeyPem) ==
    IF privateKeyPem = "pem-1"
    THEN <<"sig", manifestJson, privateKeyPem>>
    ELSE NoText

\* signManifest: the signature of the text under the key; it throws
\* "Manifest signing failed" when the key does not import
SignManifest(manifestJson, privateKeyPem) ==
    IF privateKeyPem = "pem-1"
    THEN <<"sig", manifestJson, privateKeyPem>>
    ELSE <<"throws">>

\* the signature a publisher made of an entry of its signed manifest
PublisherSignature(entry) == <<"sig", entry, "publisher-key">>

\* the columns of the selected upload that the response is built from,
\* signed_manifest and manifest_signature as maps from platform to text
ComposeUpdates ==
    {[id |-> SignedUuid(a), updateId |-> SignedUuid(a), createdAt |-> t,
      signedManifest |-> [ios |-> e, android |-> NoText],
      manifestSignature |->
          [ios |-> IF e = NoText THEN NoText ELSE PublisherSignature(e),
           android |-> NoText]] :
        a \in {"id-A", "id-B"}, t \in 1..MaxClock,
        e \in {NoText} \cup {ManifestJson(SignedUuid(b), u) :
                                 b \in {"id-A", "id-B"}, u \in 1..MaxClock}}

\* the selected upload, the platform and expo-expect-signature of the
\* request, and the key of the application
ComposeInputs ==
    {[update |-> u, platform |-> f, expectSignature |-> x, privateKey |-> k] :
        u \in ComposeUpdates, f \in {"ios", "android"}, x \in BOOLEAN,
        k \in PrivateKeys}

\* steps 7 to 10 of the handler and createMultipartResponse: the manifest
\* is built from the row and stringified; it is signed with the key of the
\* application when the request expects a signature and the application has
\* a key; the signature, when there is one, goes into the headers of the
\* manifest part and of the response
ManifestResponse(in) ==
    LET manifest == ManifestJson(ManifestId(in.update), in.update.createdAt)
        signature == IF in.expectSignature /\ ~Falsy(in.privateKey)
                     THEN SignManifest(manifest, in.privateKey)
                     ELSE NoText
    IN  IF signature = <<"throws">>
        THEN [stage |-> "composed", status |-> 500, manifestPart |-> NoText,
              partSignature |-> NoText, headerSignature |-> NoText]
        ELSE [stage |-> "composed", status |-> 200, manifestPart |-> manifest,
              partSignature |-> signature, headerSignature |-> signature]

InitCompose ==
    /\ InitStore
    /\ \E in \in ComposeInputs :
          req = [r \in Reqs |-> IF r = Client THEN in ELSE NoReq]

\* the handler builds and sends its response
Compose(r) ==
    /\ req[r] /= NoReq
    /\ job[r] = NoJob
    /\ job' = [job EXCEPT ![r] = ManifestResponse(req[r])]
    /\ UNCHANGED <<uploads, clock, pc, op, uploadId, upload, body, resp, pre,
                   everReleased, law, promoted, bundle, objects, clients, apps, req>>

NextCompose == Compose(Client)

SpecCompose == InitCompose /\ [][NextCompose]_vars

\* ------------------------------------------------------- GET /api/assets
\* the file names asset requests end with: those of the mock bundle, the two
\* configuration files, one whose name ends with that of a configuration
\* file, and one that no upload has
AssetFiles ==
    {"metadata.json", "app.json", "bundles/ios.js", "package.json",
     "myapp.json", "missing.png"}

\* the asset query parameter: absent, a key under the r2Path of the first
\* upload, or the same under a first segment that is not "updates"
AssetKeys ==
    {NoText}
    \cup {FilePath(<<top, p, "1.0.0", RandomUuid(1)>>, f) :
             top \in {"updates", "updates-old", "private"},
             p \in Projects, f \in AssetFiles}

\* assetPath.startsWith("updates/")
StartsWithUpdates(assetPath) == assetPath[1][1] = "updates"

\* assetPath.endsWith(name), for the file names of AssetFiles
EndsWith(assetPath, name) ==
    \/ assetPath[2] = name
    \/ assetPath[2] = "myapp.json" /\ name = "app.json"

\* variant: configuration files are served like any other file
AssetForbiddenPathOnly(assetPath) == ~StartsWithUpdates(assetPath)

\* the two security checks of the handler
AssetForbidden(assetPath) ==
    \/ ~StartsWithUpdates(assetPath)
    \/ EndsWith(assetPath, "app.json")
    \/ EndsWith(assetPath, "package.json")

\* the request arrives
AssetBegin(r, assetPath) ==
    /\ Begin(r, "asset", NoId)
    /\ pc' = [pc EXCEPT ![r] = "fetch"]
    /\ resp' = [resp EXCEPT ![r] = 0]
    /\ pre' = [q \in Reqs |-> <<>>]
    /\ req' = [req EXCEPT ![r] = [asset |-> assetPath]]
    /\ job' = [job EXCEPT ![r] = NoJob]
    /\ law' = NoLaw
    /\ UNCHANGED <<uploads, clock, upload, body, everReleased, promoted,
                   bundle, objects, clients, apps>>

\* 400 without the asset parameter, 403 on a forbidden path, R2.get and 404
\* when there is no object, else the body of the object
AssetFetch(r) ==
    /\ pc[r] = "fetch"
    /\ op[r] = "asset"
    /\ LET assetPath == req[r].asset
       IN  IF assetPath = NoText
           THEN /\ Respond(r, 400)
                /\ job' = [job EXCEPT ![r] =
                       Answered("Missing asset parameter", {})]
           ELSE IF ~StartsWithUpdates(assetPath)
           THEN /\ Respond(r, 403)
                /\ job' = [job EXCEPT ![r] = Answered("Invalid asset path", {})]
           ELSE IF AssetForbidden(assetPath)
           THEN /\ Respond(r, 403)
                /\ job' = [job EXCEPT ![r] = Answered("Access denied", {})]
           ELSE IF assetPath \notin objects
           THEN /\ Respond(r, 404)
                /\ job' = [job EXCEPT ![r] = Answered("Asset not found", {"r2"})]
           ELSE /\ Respond(r, 200)
                /\ job' = [job EXCEPT ![r] = Answered("", {"r2"})]
    /\ UNCHANGED <<uploads, clock, op, uploadId, everReleased, law, promoted,
                   bundle, objects, clients, apps, req>>

\* uploads, deletions and asset requests, one request at a time
NextAsset ==
    \/ \E id \in Ids, p \in Projects, c \in Channels :
          Upload(Client, id, p, "1.0.0", c, "all")
    \/ \E id \in Ids : DeleteRead(Client, id)
    \/ DeleteObjects(Client)
    \/ DeleteRow(Client)
    \/ \E k \in AssetKeys : AssetBegin(Client, k)
    \/ AssetFetch(Client)

SpecAsset == Init /\ [][NextAsset]_vars

\* ------------------------------------------------------ applications
\* the rows of apps whose id equals projectId up to letter case: what the
\* select with LOWER(id) = LOWER(projectId) can return
AppsLike(projectId) == {a \in Apps : Lower(a) = Lower(projectId)}

\* the body of POST /apps: an id or none, no key pair
CreateBodies ==
    {[id |-> i, privateKey |-> Undefined, certificate |-> Undefined] :
        i \in {"MyApp", "myapp", Undefined}}

\* the body of PATCH /apps/:id, a partial application: the fields it holds
\* among id and privateKey (Undefined for a field that is not there)
PatchBodies ==
    {[id |-> i, privateKey |-> k] :
        i \in {Undefined, "TEST-APP"}, k \in {Undefined, "pem-body"}}

\* the private keys crypto.subtle.generateKey returns, in order
GeneratedKeys == <<"pem-gen-1", "pem-gen-2">>

\* a row of uploads or clients references the application: the foreign keys
\* (ON UPDATE no action) refuse a change of its id.  Device records keep no
\* project here, so any record counts as a reference.
Referenced(a) ==
    \/ \E i \in Ids : Exists(i) /\ uploads[i].project = a
    \/ clients /= {}

\* a handler of the applications starts and keeps what it was sent
AppBegin(r, h, sent, next) ==
    /\ Begin(r, h, NoId)
    /\ pc' = [pc EXCEPT ![r] = next]
    /\ resp' = [resp EXCEPT ![r] = 0]
    /\ pre' = [q \in Reqs |-> <<>>]
    /\ req' = [req EXCEPT ![r] = sent]
    /\ job' = [job EXCEPT ![r] = NoJob]
    /\ law' = NoLaw
    /\ UNCHANGED <<uploads, clock, upload, body, everReleased, promoted,
                   bundle, objects, clients, apps>>

\* a handler of the applications answers and drops what it was sent
AppRespond(r, code, error) ==
    /\ Respond(r, code)
    /\ job' = [job EXCEPT ![r] = Answered(error, {"db"})]
    /\ req' = [req EXCEPT ![r] = NoReq]

\* POST /apps arrives
AppCreateBegin(r, sent) == AppBegin(r, "create-app", sent, "find-app")

\* 400 without an id; the select of an application with the id in any
\* letter case, 409 when there is one
AppCreateRead(r) ==
    /\ pc[r] = "find-app"
    /\ op[r] = "create-app"
    /\ IF Falsy(req[r].id)
       THEN AppRespond(r, 400, "App ID (slug) is required")
       ELSE IF AppsLike(req[r].id) /= {}
       THEN AppRespond(r, 409, "App already exists")
       ELSE /\ pc' = [pc EXCEPT ![r] = "insert-app"]
            /\ UNCHANGED <<resp, body, upload, pre, job, req>>
    /\ UNCHANGED <<uploads, clock, op, uploadId, everReleased, law, promoted,
                   bundle, objects, clients, apps>>

\* db.insert(apps).values(newApp): the primary key refuses an id that a row
\* has, letter for letter
AppCreateInsert(r) ==
    /\ pc[r] = "insert-app"
    /\ op[r] = "create-app"
    /\ IF apps[req[r].id] /= NoApp
       THEN /\ AppRespond(r, 500, "Internal Server Error")
            /\ UNCHANGED apps
       ELSE /\ apps' = [apps EXCEPT ![req[r].id] =
                   NewApp(req[r].id, req[r].privateKey, req[r].certificate)]
            /\ AppRespond(r, 201, "")
    /\ UNCHANGED <<uploads, clock, op, uploadId, everReleased, law, promoted,
                   bundle, objects, clients>>

\* PATCH /apps/:id arrives
AppPatchBegin(r, id, fields) ==
    AppBegin(r, "patch-app", [id |-> id, actualId |-> Undefined,
                              fields |-> fields], "resolve-app")

\* resolveAppId: 404 when no application has the id in any letter case, else
\* one of those that have
AppPatchRead(r) ==
    /\ pc[r] = "resolve-app"
    /\ op[r] = "patch-app"
    /\ IF AppsLike(req[r].id) = {}
       THEN AppRespond(r, 404, "App not found")
       ELSE /\ \E a \in AppsLike(req[r].id) :
                  req' = [req EXCEPT ![r].actualId = a]
            /\ pc' = [pc EXCEPT ![r] = "update-app"]
            /\ UNCHANGED <<resp, body, upload, pre, job>>
    /\ UNCHANGED <<uploads, clock, op, uploadId, everReleased, law, promoted,
                   bundle, objects, clients, apps>>

\* the row after set({...body, updatedAt}): every field of the body
\* replaces that of the row
PatchApp(row, fields) ==
    [row EXCEPT !.privateKey = IF fields.privateKey = Undefined THEN @
                               ELSE fields.privateKey]

\* db.update(apps).set({...body, updatedAt}).where(eq(apps.id, actualId)): a
\* new id is refused by the primary key when a row has it and by the foreign
\* keys when the application is referenced
AppPatchUpdate(r) ==
    /\ pc[r] = "update-app"
    /\ op[r] = "patch-app"
    /\ LET a == req[r].actualId
           fields == req[r].fields
           newId == IF fields.id = Undefined THEN a ELSE fields.id
       IN  IF apps[a] = NoApp
           THEN /\ AppRespond(r, 200, "")
                /\ UNCHANGED apps
           ELSE IF newId /= a /\ (apps[newId] /= NoApp \/ Referenced(a))
           THEN /\ AppRespond(r, 500, "Internal Server Error")
                /\ UNCHANGED apps
           ELSE /\ apps' = [[apps EXCEPT ![a] = NoApp]
                               EXCEPT ![newId] = PatchApp(apps[a], fields)]
                /\ AppRespond(r, 200, "")
    /\ UNCHANGED <<uploads, clock, op, uploadId, everReleased, law, promoted,
                   bundle, objects, clients>>

\* POST /utils/generate-certificate arrives; 400 without appId
GenerateBegin(r, appId) ==
    IF Falsy(appId)
    THEN /\ Begin(r, "generate", NoId)
         /\ AppRespond(r, 400, "appId is required")
         /\ law' = NoLaw
         /\ UNCHANGED <<uploads, clock, everReleased, promoted, bundle,
                        objects, clients, apps>>
    ELSE AppBegin(r, "generate", [appId |-> appId], "keygen")

\* the keys no application has
FreshKeys ==
    {k \in 1..Len(GeneratedKeys) :
        \A a \in Apps : apps[a].privateKey /= GeneratedKeys[k]}

\* crypto.subtle.generateKey, then the update of private_key and
\* certificate of the row whose id is appId, letter for letter
GenerateUpdate(r) ==
    /\ pc[r] = "keygen"
    /\ op[r] = "generate"
    /\ FreshKeys /= {}
    /\ LET a == req[r].appId
           key == GeneratedKeys[CHOOSE k \in FreshKeys :
                                    \A j \in FreshKeys : k <= j]
       IN  apps' = IF apps[a] = NoApp THEN apps
                   ELSE [apps EXCEPT ![a].privateKey = key,
                                     ![a].certificate = <<"public", key>>]
    /\ AppRespond(r, 200, "")
    /\ UNCHANGED <<uploads, clock, op, uploadId, everReleased, law, promoted,
                   bundle, objects, clients>>

\* the dashboard's requests on applications, one at a time
NextApps ==
    \/ \E sent \in CreateBodies : AppCreateBegin(Client, sent)
    \/ AppCreateRead(Client)
    \/ AppCreateInsert(Client)
    \/ \E id \in {"myapp", "TEST-APP"}, fields \in PatchBodies :
          AppPatchBegin(Client, id, fields)
    \/ AppPatchRead(Client)
    \/ AppPatchUpdate(Client)
    \/ \E a \in {"test-app", "MyApp", Undefined} : GenerateBegin(Client, a)
    \/ GenerateUpdate(Client)

SpecApps == Init /\ [][NextApps]_vars

\* creations and updates of applications, interleaved at their statements
NextAppRace ==
    \E r \in Reqs :
        \/ \E sent \in CreateBodies : AppCreateBegin(r, sent)
        \/ AppCreateRead(r)
        \/ AppCreateInsert(r)
        \/ \E id \in {"myapp", "TEST-APP"}, fields \in PatchBodies :
              AppPatchBegin(r, id, fields)
        \/ AppPatchRead(r)
        \/ AppPatchUpdate(r)

SpecAppRace == Init /\ [][NextAppRace]_vars

\* ------------------------------------- GET /api/manifest beside the dashboard
\* the slot of a device whose request runs while a request of the dashboard
\* is between two of its statements
Device == "r2"

\* uploads, releases and rollbacks of the dashboard, each statement a step
\* of its own (the handlers open no transaction), and manifest requests of a
\* device between them
NextLookup ==
    \/ UploadAny(Client)
    \/ \E id \in Ids : ReleaseRead(Client, id)
    \/ ReleaseDemote(Client)
    \/ ReleasePromote(Client)
    \/ \E id \in Ids : RollbackRead(Client, id)
    \/ RollbackDemote(Client)
    \/ RollbackPromote(Client)
    \/ \E raw \in ServeRequests : ManifestBegin(Device, raw)
    \/ ManifestRead(Device)
    \/ ManifestCompose(Device)

SpecLookup == Init /\ [][NextLookup]_vars


\* ---------------------------------------------------------------- properties
LiveIn(tbl, row) ==
    {i \in Ids : SameCoordinate(tbl[i], row) /\ tbl[i].status = "released"}

LiveInGroup(tbl, row) ==
    {i \in Ids : SameGroup(tbl[i], row) /\ tbl[i].status = "released"}

SingleLive(tbl) ==
    \A i \in Ids : tbl[i] /= NoRow => Cardinality(LiveIn(tbl, tbl[i])) <= 1

\* the handler of request r answers in this step
Answers(r) ==
    /\ pc'[r] = "done"
    /\ <<pc[r], op[r], uploadId[r], resp[r]>>
          /= <<pc'[r], op'[r], uploadId'[r], resp'[r]>>

\* r begins handler h in this step, on a target whose row is released
BeginsOnReleased(r, h) ==
    /\ pc[r] = "done"
    /\ op'[r] = h
    /\ <<pc[r], op[r], uploadId[r], resp[r]>>
          /= <<pc'[r], op'[r], uploadId'[r], resp'[r]>>
    /\ uploads[uploadId'[r]].status = "released"

\* C1: after every sequence of uploads, releases and rollbacks that run one
\* after the other from the empty table, at most one upload per
\* (project, version, release channel, platform) is released.
C1_SingleLiveSerial ==
    (AllDone /\ op[Client] \in {"none", "upload", "release", "rollback"})
        => SingleLive(uploads)

\* a release or rollback has answered 200 and demoted the released upload of
\* the target's coordinate
C1_Witness ==
    /\ AllDone
    /\ op[Client] \in {"release", "rollback"}
    /\ resp[Client] = 200
    /\ \E i \in Ids \ {uploadId[Client]} :
          /\ SameCoordinate(uploads[i], uploads[uploadId[Client]])
          /\ uploads[i].status = "obsolete"

\* C2: two releases of different uploads of one coordinate whose statements
\* interleave never show two released uploads in that coordinate, and when
\* both have answered 200 the coordinate has a released upload.
C2_RaceSingleLive ==
    \A r, q \in Reqs :
        (/\ r /= q
         /\ op[r] = "release" /\ op[q] = "release"
         /\ uploadId[r] /= uploadId[q]
         /\ SameCoordinate(uploads[uploadId[r]], uploads[uploadId[q]]))
        => /\ Cardinality(LiveIn(uploads, uploads[uploadId[r]])) <= 1
           /\ (pc[r] = "done" /\ pc[q] = "done" /\ resp[r] = 200 /\ resp[q] = 200)
                 => LiveIn(uploads, uploads[uploadId[r]]) /= {}

\* C3: whenever no request is running, whatever requests to POST /upload,
\* /utils/release, /utils/rollback, PATCH and DELETE /uploads/:id have been
\* answered, at most one upload per coordinate is released.
C3_SingleLiveAtRest == AllDone => SingleLive(uploads)

\* C4: every obsolete upload has been released before and has a released_at.
C4_ObsoleteWasReleased ==
    \A i \in Ids :
        uploads[i].status = "obsolete"
            => i \in everReleased /\ uploads[i].releasedAt /= Null

C6_Effect ==
    [][\A r \in Reqs :
          (/\ pc[r] = "promote" /\ pc'[r] = "done" /\ resp'[r] = 200
           /\ Alone(r))
          => LET x == uploadId[r]
                 P == pre[r]
             IN /\ uploads'[x].status = "released"
                /\ \A i \in Ids \ {x} :
                      uploads'[i].status =
                          IF SameGroup(P[i], P[x]) /\ P[i].status = "released"
                          THEN "obsolete" ELSE P[i].status
                /\ ManifestSelect(uploads', P[x].project, P[x].version,
                                  P[x].releaseChannel) = {x}]_vars

\* a rollback has answered 200, its target is released and an upload of the
\* same project, version and channel is obsolete
C6_Witness ==
    /\ AllDone
    /\ op[Client] = "rollback"
    /\ resp[Client] = 200
    /\ uploads[uploadId[Client]].status = "released"
    /\ \E i \in Ids \ {uploadId[Client]} :
          /\ SameGroup(uploads[i], uploads[uploadId[Client]])
          /\ uploads[i].status = "obsolete"

\* C7: Release(x); Rollback(y); Release(x) on two uploads of one project,
\* version and channel, each answered before the next: the second release
\* answers 200 like the two requests before it, and leaves every upload with
\* the status it had after the first release, except y, which is obsolete.
C7_ReleaseRollbackRelease ==
    [][\A r \in Reqs :
          (/\ law.phase = 2
           /\ Answers(r)
           /\ op'[r] = "release"
           /\ uploadId'[r] = law.x)
          => /\ resp'[r] = 200
             /\ StatusOf(uploads') = [law.snap EXCEPT ![law.y] = "obsolete"]]_vars

\* the three requests have been answered 200 one after the other
C7_Witness ==
    /\ law.phase = 3
    /\ law.x /= law.y
    /\ uploads[law.x].status = "released"
    /\ uploads[law.y].status = "obsolete"

\* C8: after every sequence of releases and rollbacks that run one after the
\* other, at most one upload per (project, version, release channel) is
\* released, whatever the platforms.
C8_SingleLivePerGroup ==
    AllDone =>
        \A i \in Ids :
            uploads[i] /= NoRow => Cardinality(LiveInGroup(uploads, uploads[i])) <= 1

\* an ios upload is released and an upload of platform all, of the same
\* project, version and channel, that was released is obsolete
C8_Witness ==
    /\ AllDone
    /\ \E i, j \in Ids :
          /\ SameGroup(uploads[i], uploads[j])
          /\ uploads[i].platform = "ios" /\ uploads[i].status = "released"
          /\ uploads[j].platform = "all" /\ uploads[j].status = "obsolete"
          /\ j \in everReleased

\* C9: a rollback whose target is released is refused and changes no row.
C9_RollbackOfReleasedRefused ==
    [][\A r \in Reqs :
          BeginsOnReleased(r, "rollback")
              => /\ pc'[r] = "done"
                 /\ resp'[r] \in {400, 409}
                 /\ uploads' = uploads]_vars

\* C10: a release or rollback of a ready or obsolete upload that fails after
\* it has started leaves every upload with the status and released_at it had
\* before the request.
C10_AllOrNothing ==
    [][\A r \in Reqs :
          (/\ pc[r] /= "done" /\ pc'[r] = "done" /\ resp'[r] = 500
           /\ op[r] \in {"release", "rollback"}
           /\ Alone(r)
           /\ pre[r][uploadId[r]].status \in {"ready", "obsolete"})
          => \A i \in Ids :
                /\ uploads'[i].status = pre[r][i].status
                /\ uploads'[i] /= NoRow
                      => uploads'[i].releasedAt = pre[r][i].releasedAt]_vars

\* the request of slot r has been parsed and accepted, and its select runs in
\* this step
Looks(r) ==
    /\ pc[r] = "parse"
    /\ op[r] = "manifest"
    /\ pc'[r] /= "parse"
    /\ ParseExpoRequest(req[r].header, req[r].query, Undefined, Undefined).error = ""

\* the released uploads of the project, version and channel that the headers
\* of a device request name
LiveFor(tbl, h) ==
    {i \in Ids : /\ tbl[i] /= NoRow
                 /\ tbl[i].project = h.project
                 /\ tbl[i].version = h.version
                 /\ tbl[i].releaseChannel = h.channel
                 /\ tbl[i].status = "released"}

\* C11: the manifest endpoint goes on to send the manifest of an upload only
\* if the upload is released when the select runs and a release or rollback
\* has promoted it (every upload enters the table as ready, and an obsolete
\* upload is never selected); a request for a project, version and channel
\* with no released upload is answered 404.
C11_ServedOnlyPromoted ==
    [][/\ \A i \in Ids :
             (uploads[i] = NoRow /\ uploads'[i] /= NoRow)
                 => uploads'[i].status = "ready"
       /\ \A r \in Reqs :
             Looks(r) =>
                /\ pc'[r] = "compose"
                      => /\ uploads[uploadId'[r]].status = "released"
                         /\ uploadId'[r] \in promoted
                /\ LiveFor(uploads, req[r].header) = {}
                      => pc'[r] = "done" /\ resp'[r] = 404]_vars

\* of the ids in pool, those with the latest releasedAt
Latest(tbl, pool) ==
    {i \in pool : \A j \in pool : tbl[j].releasedAt <= tbl[i].releasedAt}

\* C12: for a device of platform p, the upload the manifest endpoint selects
\* among the released uploads of the requested project, version and channel
\* has platform p or all; one of platform p goes before one of platform all,
\* and among those that remain the latest released_at wins; the answer is 404
\* when only uploads of the other platform are released.
C12_PlatformFilter ==
    [][\A r \in Reqs :
          Looks(r) =>
             LET h == req[r].header
                 fit == {i \in LiveFor(uploads, h) :
                            uploads[i].platform \in {h.platform, "all"}}
                 exact == {i \in fit : uploads[i].platform = h.platform}
             IN  IF fit = {}
                 THEN pc'[r] = "done" /\ resp'[r] = 404
                 ELSE /\ pc'[r] = "compose"
                      /\ uploadId'[r] \in
                            Latest(uploads, IF exact /= {} THEN exact ELSE fit)]_vars

\* C13: a manifest request whose project id equals the id of an application
\* up to letter case is answered like the request with the stored id: it
\* selects a latest released upload of that application, version and
\* channel, and gets 404 only when that application has none.
C13_CaseInsensitive ==
    [][\A r \in Reqs :
          (Looks(r) /\ ResolveAppId(req[r].header.project) /= Undefined) =>
             LET h == [req[r].header EXCEPT
                          !.project = ResolveAppId(req[r].header.project)]
                 live == LiveFor(uploads, h)
             IN  IF live = {}
                 THEN pc'[r] = "done" /\ resp'[r] = 404
                 ELSE /\ pc'[r] = "compose"
                      /\ uploadId'[r] \in Latest(uploads, live)]_vars

\* the first value of a list of sources that is not missing or empty
FirstOf(sources) ==
    IF \A k \in 1..Len(sources) : Falsy(sources[k])
    THEN Undefined
    ELSE sources[CHOOSE k \in 1..Len(sources) :
                    /\ ~Falsy(sources[k])
                    /\ \A j \in 1..(k - 1) : Falsy(sources[j])]

\* C14: the parser takes each field of an accepted request from the first
\* source that has a non-empty value, in the order header, query string, path
\* segment: project and channel from the three, platform and runtime version
\* from header and query string.
C14_Precedence ==
    \A r \in Reqs :
        (job[r].stage = "parsed" /\ job[r].params.error = "") =>
            LET h == req[r].header
                q == req[r].query
                p == req[r].path
                params == job[r].params
            IN  /\ params.project = FirstOf(<<h.project, q.project, p.project>>)
                /\ params.releaseChannel = FirstOf(<<h.channel, q.channel, p.channel>>)
                /\ params.platform = FirstOf(<<h.platform, q.platform>>)
                /\ params.runtimeVersion = FirstOf(<<h.version, q.version>>)

\* a request parsed whose project header is empty while query string and path
\* both name a project, and whose platform is in header and query string
C14_Witness ==
    /\ job[Client].stage = "parsed"
    /\ req[Client].header.project = ""
    /\ req[Client].query.project = "app-q"
    /\ req[Client].path.project = "app-p"
    /\ job[Client].params.project = "app-q"
    /\ req[Client].header.platform = "ios"
    /\ req[Client].query.platform = "android"
    /\ job[Client].params.platform = "ios"

\* the field an error message of the parser names
FieldNamed(error) ==
    CASE error = "Missing project identifier" -> "project"
      [] error = "Invalid or missing platform (must be ios or android)" -> "platform"
      [] error = "Missing runtime version" -> "version"
      [] error = "Missing release channel" -> "channel"
      [] OTHER -> "none"

\* the fields of a request to GET /api/manifest that no source supplies, and
\* platform also when it is not ios or android
Offending(raw) ==
    {f \in {"project", "platform", "version", "channel"} :
        \/ Falsy(raw.header[f]) /\ Falsy(raw.query[f])
        \/ f = "platform" /\ FirstOf(<<raw.header[f], raw.query[f]>>)
                                 \notin {"ios", "android"}}

\* C15: a manifest request with project, platform, runtime version or channel
\* missing from every source, or with a platform other than ios and android,
\* is answered 400 with an error that names such a field, in the step that
\* parses it: no table and no object has been read or written, and no device
\* record exists that did not before.
C15_RejectedUntouched ==
    [][\A r \in Reqs :
          (/\ pc[r] = "parse" /\ op[r] = "manifest" /\ pc'[r] /= "parse"
           /\ Offending(req[r]) /= {})
          => /\ pc'[r] = "done"
             /\ resp'[r] = 400
             /\ FieldNamed(job'[r].error) \in Offending(req[r])
             /\ job'[r].accessed = {}
             /\ UNCHANGED <<uploads, bundle, clients, objects>>]_vars

\* a request without a valid platform has been refused while an upload is
\* released and no device record exists
C15_Witness ==
    /\ op[Client] = "manifest"
    /\ resp[Client] = 400
    /\ job[Client] = Answered("Invalid or missing platform (must be ios or android)", {})
    /\ clients = {}
    /\ Released(uploads) /= {}

\* an id can be read from the signed manifest: it is supplied, decodes and
\* parses, and its first platform entry is a manifest with an id
IdReadable(signed) ==
    /\ signed.enc = "base64"
    /\ signed.body = "map"
    /\ FirstPlatformManifest(signed) \in {"id-A", "id-B"}

\* C17: the update id is the id of the first platform entry of the signed
\* manifest when one can be read; otherwise, when metadata.json was uploaded,
\* the UUID of the digest of metadata.json, ":" and the platform; otherwise
\* the random UUID.
C17_UpdateIdRule ==
    \A r \in Reqs :
        job[r].stage = "derived" =>
            job[r].updateId =
                IF IdReadable(req[r].signed)
                THEN SignedUuid(FirstPlatformManifest(req[r].signed))
                ELSE IF req[r].metadataJson /= Undefined
                THEN HashToUuid(<<req[r].metadataJson, ":", req[r].platform>>)
                ELSE job[r].random

\* the status that refuses a publish request: 401 for a missing or wrong
\* upload key, 400 for a missing project, version or release-channel header,
\* 404 for a project that is the id of no application in any letter case; 0
\* when the request is well-formed
Refusal(raw) ==
    IF raw.uploadKey /= UPLOAD_KEY THEN 401
    ELSE IF Undefined \in {raw.project, raw.version, raw.releaseChannel} THEN 400
    ELSE IF \A a \in Apps : Lower(a) /= Lower(raw.project) THEN 404
    ELSE 0

\* C16: an upload request with a bad upload key, a missing required header or
\* an unknown application is answered 401, 400 or 404 by the checks, which run
\* before the first put and the insert: the uploads table, the clients table
\* and the bucket are as they were, and only a well-formed request goes on.
C16_RefusedUntouched ==
    [][\A r \in Reqs :
          (/\ pc[r] = "check" /\ op[r] = "publish" /\ pc'[r] /= "check"
           /\ Refusal(req[r]) /= 0)
          => /\ pc'[r] = "done"
             /\ resp'[r] = Refusal(req[r])
             /\ UNCHANGED <<uploads, bundle, objects, clients>>]_vars

\* an unknown application has been refused while the table and the bucket
\* hold an upload
C16_Witness ==
    /\ op[Client] = "publish"
    /\ pc[Client] = "done"
    /\ resp[Client] = 404
    /\ job[Client] = Answered("App not found", {"db"})
    /\ \E i \in Ids : Exists(i) /\ ListObjects(objects, bundle[i].r2Path) /= {}

\* C18: for every upload row, the primary id is the id that the manifest
\* composed for the row advertises, and r2Path is "updates/" + application id
\* + "/" + runtime version + "/" + that id.
C18_IdAdvertised ==
    \A i \in Ids :
        Exists(i) =>
            /\ bundle[i].id = ManifestId(bundle[i])
            /\ bundle[i].r2Path =
                   R2Path(uploads[i].project, uploads[i].version,
                          ManifestId(bundle[i]))

\* the keys that the manifest composed for an upload advertises: the launch
\* asset of each platform of its metadata (the bundles posted have no assets)
AdvertisedKeys(update) ==
    {BundlePath(update, p) : p \in DOMAIN update.fileMetadata}

\* C19: in every state, the states between the statements of running uploads
\* and deletions included, every key that the manifest of a row in the table
\* advertises lies under the r2Path of the row and holds an object.
C19_AdvertisedKeysStored ==
    \A i \in Ids :
        Exists(i) =>
            \A k \in AdvertisedKeys(bundle[i]) :
                /\ k[1] = bundle[i].r2Path
                /\ k \in objects

\* C20: when an upload stops before its row is inserted, no key it has
\* written lies under the r2Path of a row in the table.
C20_OrphansApart ==
    [][\A r \in Reqs :
          (/\ op[r] = "publish" /\ pc[r] \in {"put", "insert"}
           /\ pc'[r] = "done" /\ resp'[r] /= 201)
          => \A k \in job[r].written :
                \A i \in Ids : Exists(i) => bundle[i].r2Path /= k[1]]_vars

\* C21: when the selected upload stores a signed manifest entry for the
\* platform of the request, the manifest part of the response is that entry
\* byte for byte and the signature sent is the one stored for the platform.
C21_StoredEntryServed ==
    \A r \in Reqs :
        (/\ job[r].stage = "composed"
         /\ job[r].status = 200
         /\ req[r].update.signedManifest[req[r].platform] /= NoText)
        => /\ job[r].manifestPart =
                  req[r].update.signedManifest[req[r].platform]
           /\ job[r].partSignature =
                  req[r].update.manifestSignature[req[r].platform]

\* C22 as stated: a 200 response to a request that expects a signature
\* carries one, in the headers of the manifest part and of the response.
C22_SignedWhenExpected ==
    \A r \in Reqs :
        (/\ job[r].stage = "composed"
         /\ job[r].status = 200
         /\ req[r].expectSignature)
        => /\ job[r].partSignature /= NoText
           /\ job[r].headerSignature /= NoText

\* C23: handling a manifest request performs no operation on the bucket: no
\* answer of the manifest handler has accessed it.
C23_NoObjectStoreAccess ==
    \A r \in Reqs :
        (op[r] = "manifest" /\ job[r].stage = "answered")
        => "r2" \notin job[r].accessed

Permitted(k) ==
    /\ StartsWithUpdates(k)
    /\ ~EndsWith(k, "app.json")
    /\ ~EndsWith(k, "package.json")

\* C25: the asset endpoint answers a key that is not permitted with 403
\* without reading the bucket, a permitted key that holds no object with 404,
\* and the bytes of the object only for a permitted key that holds one; it
\* changes neither the bucket nor the tables.
C25_AssetGuard ==
    [][\A r \in Reqs :
          (/\ pc[r] = "fetch" /\ op[r] = "asset" /\ pc'[r] = "done"
           /\ req[r].asset /= NoText)
          => LET k == req[r].asset
             IN  /\ resp'[r] = IF ~Permitted(k) THEN 403
                               ELSE IF k \in objects THEN 200 ELSE 404
                 /\ ~Permitted(k) => job'[r].accessed = {}
                 /\ UNCHANGED <<uploads, bundle, objects, clients>>]_vars

\* app.json of an upload in the bucket has been refused, and so has a key
\* outside updates/
C25_Witness ==
    /\ op[Client] = "asset"
    /\ pc[Client] = "done"
    /\ resp[Client] = 403
    /\ req[Client].asset \in objects
    /\ req[Client].asset[2] = "app.json"

C22_SignedWhenKeyed ==
    \A r \in Reqs :
        (job[r].stage = "composed" /\ req[r].expectSignature)
        => IF req[r].privateKey = Undefined
           THEN job[r].status = 200 /\ job[r].partSignature = NoText
           ELSE \/ /\ job[r].status = 200
                   /\ job[r].partSignature =
                          <<"sig", job[r].manifestPart, req[r].privateKey>>
                   /\ job[r].headerSignature = job[r].partSignature
                \/ /\ job[r].status = 500
                   /\ job[r].manifestPart = NoText

\* a signed manifest has been sent to a request that expects a signature
C22_Witness ==
    /\ job[Client].stage = "composed"
    /\ req[Client].expectSignature
    /\ job[Client].status = 200
    /\ job[Client].headerSignature /= NoText

\* the key pair of a row of apps
KeyPair(row) == <<row.privateKey, row.certificate>>

\* C27: the key pair of an application is changed by no step other than the
\* update of POST /utils/generate-certificate for that application.
C27_KeyPairFrame ==
    [][\A a \in AppIds :
          (/\ apps[a] /= NoApp /\ apps'[a] /= NoApp
           /\ KeyPair(apps'[a]) /= KeyPair(apps[a]))
          => \E r \in Reqs :
                /\ op[r] = "generate" /\ pc[r] = "keygen" /\ pc'[r] = "done"
                /\ req[r].appId = a]_vars

\* C29: no two rows of apps have ids that are equal when letter case is
\* ignored.
C29_UniqueIgnoringCase ==
    \A a \in Apps : \A b \in Apps : Lower(a) = Lower(b) => a = b

\* C28: released_at of an upload is written only by the step that moves the
\* upload from ready to released; every other step (demotion to obsolete,
\* re-promotion of an obsolete upload by Rollback, PATCH of other fields)
\* leaves it as it was.
C28_ReleasedAtFrame ==
    [][\A i \in Ids :
          (/\ uploads[i] /= NoRow /\ uploads'[i] /= NoRow
           /\ uploads'[i].releasedAt /= uploads[i].releasedAt)
          => /\ uploads[i].status = "ready"
             /\ uploads'[i].status = "released"]_vars

\* the released uploads of the project, version and channel of the row u
LiveBeside(tbl, u) ==
    {i \in Ids : tbl[i] /= NoRow /\ SameGroup(tbl[i], u)
                 /\ tbl[i].status = "released"}

\* C30: once a project, version and channel have a released upload, a
\* manifest lookup that runs during a Release or Rollback finds a released
\* upload, never none; and the table between the two statements of a Release
\* or Rollback does not have zero released uploads for a project, version
\* and channel that had one before the first statement and whose target is
\* there to be promoted by the second.
C30_NeverEmpty ==
    [][/\ \A r \in Reqs :
             (/\ Looks(r)
              /\ \E i \in everReleased :
                    /\ uploads[i] /= NoRow
                    /\ uploads[i].project = req[r].header.project
                    /\ uploads[i].version = req[r].header.version
                    /\ uploads[i].releaseChannel = req[r].header.channel)
                 => ~(/\ pc'[r] = "done" /\ resp'[r] = 404
                      /\ job'[r].error = "No updates available")
       /\ \A r \in Reqs :
             (/\ pc[r] = "demote" /\ pc'[r] = "promote"
              /\ LiveBeside(uploads, upload[r]) /= {}
              /\ Exists(uploadId[r]))
                 => LiveBeside(uploads', upload[r]) /= {}]_vars

====
